---- MODULE Spec2Model ----
(***************************************************************************)
(* Pharmacy inventory backend: the add-stock, record-sale and delete       *)
(* handlers of the two file-backed servers (pharmacy-backend/index.js and  *)
(* pharmacy-backend/server.js) and of the two MongoDB servers (part_000    *)
(* and part_001).  For the file-backed servers the persisted collection is *)
(* the "inventory" array of data.json; every handler reads it, computes,   *)
(* and (on its success paths only) writes it back, all in one synchronous  *)
(* step.  The MongoDB handlers are async: each await (findOne, save,       *)
(* deleteOne) is a step of its own, and two requests may interleave there. *)
(*                                                                         *)
(* Specifications                                                          *)
(*  - Spec: index.js or server.js started on an empty data.json;           *)
(*  - SpecSeeded: the same servers started on a data.json that already     *)
(*    holds distinct batches;                                              *)
(*  - SpecMongo: part_000 or part_001 serving two connections;             *)
(*  - SpecStatus: the status listing of part_000 and part_001 (getStatus   *)
(*    and the filter query), one stored medicine read at some time.        *)
(*                                                                         *)
(* Modelling conventions                                                   *)
(*  - expiry dates are day numbers (new Date(s) is monotone in the ISO     *)
(*    calendar date, so date subtraction is integer subtraction); only the *)
(*    status listing counts time in ticks, several to a day;               *)
(*  - a quantity in a request body is a raw JSON value: a number, a        *)
(*    non-numeric string or a missing field; Number() and parseInt() turn  *)
(*    it into a JavaScript number, which may be NaN;                       *)
(*  - quantities stored in the collection are integers (add-stock inputs   *)
(*    are numbers or missing);                                             *)
(*  - stock is added under lower-case names; sale and delete requests use  *)
(*    names of either case.                                                *)
(***************************************************************************)
EXTENDS Integers, Sequences, FiniteSets, TLC

\* ----------------------------------------------------------------- bounds
MaxBatches == 2      \* rows the collection may hold
MaxQty == 2          \* largest quantity of an add-stock request and of a row
MaxDebt == 1         \* most negative quantity a row may reach: -MaxDebt
MaxDay == 95         \* latest calendar day of an expiry date in the listing
DayMs == 2           \* ticks of the clock in a day

\* ------------------------------------------------------ program constants
SoonDays == 30       \* getStatus: days <= 30 is "soon"
NearDays == 90       \* getStatus: days <= 90 is "near"

\* ----------------------------------------------------------------- inputs
\* names in sale and delete requests; "A" and "a" differ in case only
Names == {"a", "A", "b"}
\* name, strength and expiryDate of the add-stock requests
AddBodies ==
    {[name |-> "a", strength |-> "x", expiryDate |-> 1],
     [name |-> "a", strength |-> "x", expiryDate |-> 2],
     [name |-> "a", strength |-> "y", expiryDate |-> 1],
     [name |-> "a", strength |-> "y", expiryDate |-> 2],
     [name |-> "b", strength |-> "x", expiryDate |-> 1]}

\* raw JSON values of the "quantity" field
RawNum(n) == [kind |-> "num", v |-> n]
RawText == [kind |-> "text", v |-> 0]
RawMissing == [kind |-> "missing", v |-> 0]
AddQuantities == {RawNum(n) : n \in -1..MaxQty} \cup {RawMissing}
SaleQuantities == {RawNum(n) : n \in -1..(MaxQty + 1)} \cup {RawText}

\* ------------------------------------------------- JavaScript numbers
NaN == [nan |-> TRUE, v |-> 0]
Num(n) == [nan |-> FALSE, v |-> n]

\* Number(x) / parseInt(x) of a raw JSON value: a number converts to itself,
\* a non-numeric string or undefined converts to NaN.
Number(raw) == IF raw.kind = "num" THEN Num(raw.v) ELSE NaN
parseInt(raw) == IF raw.kind = "num" THEN Num(raw.v) ELSE NaN

\* comparisons with NaN are false; arithmetic with NaN is NaN
JsLe(a, b) == ~a.nan /\ ~b.nan /\ a.v <= b.v
JsGe(a, b) == ~a.nan /\ ~b.nan /\ a.v >= b.v
JsGt(a, b) == ~a.nan /\ ~b.nan /\ a.v > b.v
JsSub(a, b) == IF a.nan \/ b.nan THEN NaN ELSE Num(a.v - b.v)
JsStrictEq(a, b) == ~a.nan /\ ~b.nan /\ a.v = b.v

\* !x of a raw quantity: missing, 0 and "" are falsy
Falsy(raw) == raw.kind = "missing" \/ (raw.kind = "num" /\ raw.v = 0)

toLowerCase(s) == IF s = "A" THEN "a" ELSE IF s = "X" THEN "x" ELSE IF s = "Y" THEN "y" ELSE s

VARIABLES
    variant,      \* which server runs: "index", "server", "part_000" or "part_001"
    inventory,    \* the persisted collection, in insertion order
    last,         \* file-backed servers: the last request's kind and response
    reqs,         \* MongoDB servers: the requests in flight, one per connection
    base,         \* MongoDB servers: the collection when no request was in flight
    clock,        \* MongoDB servers: the time new Date() returns
    listing       \* MongoDB servers: the last GET /api/inventory and its response
vars == <<variant, inventory, last, reqs, base, clock, listing>>

Variants == {"index", "server"}
MongoVariants == {"part_000", "part_001"}
Connections == {1, 2}

\* last: the kind of the last request and the response it got (detail: the
\* number the error message of a refused sale carries)
NoRequest == [op |-> "none", status |-> 0, err |-> "none", detail |-> 0]

\* ------------------------------------------------------------- helpers
Indices(items) == 1..Len(items)

\* Array.prototype.filter, as the ascending sequence of the kept positions
\* (keep[i] tells whether the callback holds of element i)
RECURSIVE FilterIdx(_, _)
FilterIdx(keep, i) ==
    IF i > Len(keep) THEN <<>>
    ELSE IF keep[i] THEN <<i>> \o FilterIdx(keep, i + 1)
    ELSE FilterIdx(keep, i + 1)

\* the callback's value at every position of items
Flags(items, holds) == [i \in Indices(items) |-> i \in holds]

\* insert position p into the sorted sequence of positions, after every
\* element whose date is not later (a stable sort by ascending expiry date)
RECURSIVE InsertByExpiry(_, _, _)
InsertByExpiry(items, sorted, p) ==
    IF sorted = <<>> THEN <<p>>
    ELSE IF items[Head(sorted)].expiryDate - items[p].expiryDate > 0
         THEN <<p>> \o sorted
         ELSE <<Head(sorted)>> \o InsertByExpiry(items, Tail(sorted), p)

RECURSIVE SortByExpiry(_, _)
SortByExpiry(items, idxs) ==
    IF idxs = <<>> THEN <<>>
    ELSE InsertByExpiry(items, SortByExpiry(items, SubSeq(idxs, 1, Len(idxs) - 1)),
                        idxs[Len(idxs)])

\* reduce((sum, item) => sum + item.quantity, 0) over the rows at the given
\* positions
RECURSIVE SumQuantity(_, _)
SumQuantity(inv, at) ==
    IF at = {} THEN 0
    ELSE LET i == CHOOSE k \in at : TRUE IN inv[i].quantity + SumQuantity(inv, at \ {i})

Pick(items, idxs) == [k \in 1..Len(idxs) |-> items[idxs[k]]]

\* ===================================================== index.js handlers
\* findItem: first row with the same name and strength, ignoring case (0: none)
findItem(items, name, strength) ==
    LET hits == {i \in Indices(items) :
                    /\ toLowerCase(items[i].name) = toLowerCase(name)
                    /\ toLowerCase(items[i].strength) = toLowerCase(strength)}
    IN IF hits = {} THEN 0 ELSE CHOOSE i \in hits : \A j \in hits : i <= j

\* the add handler with a merge that always takes the supplied expiry date
IndexAddStockOverwrite(inv, name, strength, quantity, expiryDate) ==
    IF name = "" \/ strength = "" \/ quantity.kind = "missing" \/ expiryDate = 0
    THEN [inv |-> inv, status |-> 400, err |-> "validation", detail |-> 0]
    ELSE LET existingItem == findItem(inv, name, strength) IN
         IF existingItem # 0
         THEN [inv |-> [inv EXCEPT
                          ![existingItem].quantity = @ + Number(quantity).v,
                          ![existingItem].expiryDate = expiryDate],
               status |-> 200, err |-> "none", detail |-> 0]
         ELSE [inv |-> Append(inv, [name |-> name, strength |-> strength,
                                    quantity |-> Number(quantity).v,
                                    expiryDate |-> expiryDate]),
               status |-> 201, err |-> "none", detail |-> 0]

\* app.post('/api/inventory')
IndexAddStock(inv, name, strength, quantity, expiryDate) ==
    IF name = "" \/ strength = "" \/ quantity.kind = "missing" \/ expiryDate = 0
    THEN [inv |-> inv, status |-> 400, err |-> "validation", detail |-> 0]
    ELSE LET existingItem == findItem(inv, name, strength) IN
         IF existingItem # 0
         THEN [inv |-> [inv EXCEPT
                          ![existingItem].quantity = @ + Number(quantity).v,
                          ![existingItem].expiryDate =
                              IF expiryDate < @ THEN expiryDate ELSE @],
               status |-> 200, err |-> "none", detail |-> 0]
         ELSE [inv |-> Append(inv, [name |-> name, strength |-> strength,
                                    quantity |-> Number(quantity).v,
                                    expiryDate |-> expiryDate]),
               status |-> 201, err |-> "none", detail |-> 0]

\* the deduction loop over matchingStocks (positions of inv, in sale order)
RECURSIVE DeductLoop(_, _, _)
DeductLoop(inv, matchingStocks, remainingSale) ==
    IF matchingStocks = <<>> \/ JsStrictEq(remainingSale, Num(0))
    THEN [inv |-> inv, remainingSale |-> remainingSale]
    ELSE LET stock == Head(matchingStocks) IN
         IF JsGe(Num(inv[stock].quantity), remainingSale)
         THEN [inv |-> [inv EXCEPT ![stock].quantity = @ - remainingSale.v],
               remainingSale |-> Num(0)]
         ELSE DeductLoop([inv EXCEPT ![stock].quantity = 0],
                         Tail(matchingStocks),
                         JsSub(remainingSale, Num(inv[stock].quantity)))

IndexMatchingStocks(inv, medicine) ==
    LET match == {i \in Indices(inv) :
                     toLowerCase(inv[i].name) = toLowerCase(medicine) /\ inv[i].quantity > 0}
    IN SortByExpiry(inv, FilterIdx(Flags(inv, match), 1))

\* the sale handler with the deduction loop's in-place updates written back on
\* the insufficient-stock path as well
IndexRecordSaleInPlace(inv, medicine, quantity) ==
    LET saleQty == Number(quantity) IN
    IF medicine = "" \/ JsLe(saleQty, Num(0))
    THEN [inv |-> inv, status |-> 400, err |-> "validation", detail |-> 0]
    ELSE LET done == DeductLoop(inv, IndexMatchingStocks(inv, medicine), saleQty) IN
         IF JsGt(done.remainingSale, Num(0))
         THEN [inv |-> done.inv, status |-> 400, err |-> "insufficient",
               detail |-> done.remainingSale.v]
         ELSE LET stocked == {i \in Indices(done.inv) : done.inv[i].quantity > 0} IN
              [inv |-> Pick(done.inv, FilterIdx(Flags(done.inv, stocked), 1)),
               status |-> 200, err |-> "none", detail |-> 0]

\* app.post('/api/sales'); the number in the error of a refused sale is the
\* remainingSale of "Missing ${remainingSale} units"
IndexRecordSale(inv, medicine, quantity) ==
    LET saleQty == Number(quantity) IN
    IF medicine = "" \/ JsLe(saleQty, Num(0))
    THEN [inv |-> inv, status |-> 400, err |-> "validation", detail |-> 0]
    ELSE LET done == DeductLoop(inv, IndexMatchingStocks(inv, medicine), saleQty) IN
         IF JsGt(done.remainingSale, Num(0))
         THEN [inv |-> inv, status |-> 400, err |-> "insufficient",
               detail |-> done.remainingSale.v]
         ELSE LET stocked == {i \in Indices(done.inv) : done.inv[i].quantity > 0} IN
              [inv |-> Pick(done.inv, FilterIdx(Flags(done.inv, stocked), 1)),
               status |-> 200, err |-> "none", detail |-> 0]

\* app.delete('/api/inventory/:name')
IndexDelete(inv, itemName) ==
    LET other == {i \in Indices(inv) : toLowerCase(inv[i].name) # toLowerCase(itemName)}
        kept == Pick(inv, FilterIdx(Flags(inv, other), 1))
    IN IF Len(kept) = Len(inv)
       THEN [inv |-> inv, status |-> 404, err |-> "notfound", detail |-> 0]
       ELSE [inv |-> kept, status |-> 200, err |-> "none", detail |-> 0]

\* ==================================================== server.js handlers
\* app.post('/api/inventory')
ServerAddStock(inv, name, strength, quantity, expiryDate) ==
    IF name = "" \/ strength = "" \/ Falsy(quantity) \/ expiryDate = 0
       \/ JsLe(Number(quantity), Num(0))
    THEN [inv |-> inv, status |-> 400, err |-> "validation", detail |-> 0]
    ELSE IF \E i \in Indices(inv) : /\ inv[i].name = name
                                    /\ inv[i].strength = strength
                                    /\ inv[i].expiryDate = expiryDate
    THEN [inv |-> inv, status |-> 409, err |-> "conflict", detail |-> 0]
    ELSE [inv |-> Append(inv, [name |-> name, strength |-> strength,
                               quantity |-> parseInt(quantity).v,
                               expiryDate |-> expiryDate]),
          status |-> 201, err |-> "none", detail |-> 0]

\* findIndex(i => i.name === item.name && i['expiry-date'] === item['expiry-date'])
findIndex(inv, item) ==
    CHOOSE i \in Indices(inv) :
        /\ inv[i].name = item.name /\ inv[i].expiryDate = item.expiryDate
        /\ \A j \in Indices(inv) :
              (inv[j].name = item.name /\ inv[j].expiryDate = item.expiryDate) => i <= j

\* the position the sale debits (0: undefined)
ServerItemIndex(inv, medicine, saleQty) ==
    LET enough == {i \in Indices(inv) :
                      inv[i].name = medicine /\ JsGe(Num(inv[i].quantity), saleQty)}
        sorted == SortByExpiry(inv, FilterIdx(Flags(inv, enough), 1))
    IN IF sorted = <<>> THEN 0 ELSE findIndex(inv, inv[Head(sorted)])

\* splice(itemIndex, 1)
Splice(items, i) == SubSeq(items, 1, i - 1) \o SubSeq(items, i + 1, Len(items))

\* currentStock: the sum over the rows of exactly this name
ServerCurrentStock(inv, medicine) ==
    SumQuantity(inv, {i \in Indices(inv) : inv[i].name = medicine})

\* app.post('/api/sales')
ServerRecordSale(inv, medicine, quantity) ==
    LET saleQty == parseInt(quantity) IN
    IF medicine = "" \/ JsLe(saleQty, Num(0))
    THEN [inv |-> inv, status |-> 400, err |-> "validation", detail |-> 0]
    ELSE LET itemIndex == ServerItemIndex(inv, medicine, saleQty) IN
         IF itemIndex = 0
         THEN [inv |-> inv, status |-> 400, err |-> "insufficient",
               detail |-> ServerCurrentStock(inv, medicine)]
         ELSE LET debited == [inv EXCEPT ![itemIndex].quantity = @ - saleQty.v] IN
              [inv |-> IF debited[itemIndex].quantity = 0
                       THEN Splice(debited, itemIndex) ELSE debited,
               status |-> 200, err |-> "none", detail |-> 0]

\* app.delete('/api/inventory/:name')
ServerDelete(inv, nameToDelete) ==
    LET other == {i \in Indices(inv) : inv[i].name # nameToDelete}
        kept == Pick(inv, FilterIdx(Flags(inv, other), 1))
    IN IF Len(inv) = Len(kept)
       THEN [inv |-> inv, status |-> 404, err |-> "notfound", detail |-> 0]
       ELSE [inv |-> kept, status |-> 200, err |-> "none", detail |-> 0]

\* ============================================================== actions
\* the handler of the running server
addStock(inv, name, strength, quantity, expiryDate) ==
    IF variant = "index" THEN IndexAddStock(inv, name, strength, quantity, expiryDate)
    ELSE ServerAddStock(inv, name, strength, quantity, expiryDate)

recordSale(inv, medicine, quantity) ==
    IF variant = "index" THEN IndexRecordSale(inv, medicine, quantity)
    ELSE ServerRecordSale(inv, medicine, quantity)

deleteByName(inv, name) ==
    IF variant = "index" THEN IndexDelete(inv, name) ELSE ServerDelete(inv, name)

WithinBounds(inv) ==
    /\ Len(inv) <= MaxBatches
    /\ \A i \in Indices(inv) : inv[i].quantity \in -MaxDebt..MaxQty

\* one request handled to completion: r is the handler's result
Respond(r, op) ==
    /\ WithinBounds(r.inv)
    /\ inventory' = r.inv
    /\ last' = [op |-> op, status |-> r.status, err |-> r.err, detail |-> r.detail]
    /\ UNCHANGED <<variant, reqs, base, clock, listing>>

PostInventory(name, strength, quantity, expiryDate) ==
    Respond(addStock(inventory, name, strength, quantity, expiryDate), "add")

PostSales(medicine, quantity) ==
    Respond(recordSale(inventory, medicine, quantity), "sale")

DeleteInventory(name) ==
    Respond(deleteByName(inventory, name), "delete")

IndexPostInventory ==
    /\ variant = "index"
    /\ \E body \in AddBodies, quantity \in AddQuantities :
          PostInventory(body.name, body.strength, quantity, body.expiryDate)

IndexPostSales ==
    /\ variant = "index"
    /\ \E medicine \in Names \cup {""}, quantity \in SaleQuantities :
          PostSales(medicine, quantity)

IndexDeleteInventory ==
    /\ variant = "index"
    /\ \E itemName \in Names : DeleteInventory(itemName)

ServerPostInventory ==
    /\ variant = "server"
    /\ \E body \in AddBodies, quantity \in AddQuantities :
          PostInventory(body.name, body.strength, quantity, body.expiryDate)

ServerPostSales ==
    /\ variant = "server"
    /\ \E medicine \in Names \cup {""}, quantity \in SaleQuantities :
          PostSales(medicine, quantity)

ServerDeleteInventory ==
    /\ variant = "server"
    /\ \E nameToDelete \in Names : DeleteInventory(nameToDelete)

\* ===================================================== MongoDB handlers
MongoNames == {"a", "b"}
MongoAddQuantities == {RawNum(n) : n \in -1..MaxQty} \cup {RawMissing}
MongoSaleQuantities == {RawNum(n) : n \in 0..MaxQty}

Idle == [pc |-> "idle", op |-> "none", name |-> "", quantity |-> RawMissing,
         med |-> 0, attached |-> FALSE, existingMed |-> "unset",
         status |-> 0, err |-> "none"]

Finish(s, status, err) == [s EXCEPT !.pc = "done", !.status = status, !.err = err]

\* Medicine.findOne({ name }): the position of the document (0: null)
findOne(db, name) ==
    IF \E i \in Indices(db) : db[i].name = name
    THEN CHOOSE i \in Indices(db) : db[i].name = name
    ELSE 0

\* the synchronous part of a handler up to its first await
MongoBegin(op, name, quantity) ==
    LET s == [Idle EXCEPT !.op = op, !.name = name, !.quantity = quantity] IN
    CASE op = "add" ->
           IF name = "" \/ quantity.kind = "missing"
           THEN Finish(s, 400, "validation")
           ELSE [s EXCEPT !.pc = IF variant = "part_001" THEN "find" ELSE "save"]
      [] op = "sale" ->
           IF name = "" \/ JsLe(Number(quantity), Num(0))
           THEN Finish(s, 400, "validation")
           ELSE [s EXCEPT !.pc = "find"]
      [] OTHER -> [s EXCEPT !.pc = "delete"]

\* the awaited operations against a collection without the unique index on name
MongoStepNoIndex(db, s) ==
    LET i == findOne(db, s.name) IN
    CASE s.op = "add" /\ s.pc = "find" ->
           {[db |-> db,
             s |-> IF i # 0 THEN Finish([s EXCEPT !.existingMed = "found"], 400, "conflict")
                   ELSE [s EXCEPT !.pc = "save", !.existingMed = "null"]]}
      [] s.op = "add" /\ s.pc = "save" ->
           IF s.quantity.v < 0
           THEN {[db |-> db, s |-> Finish(s, 500, "error")]}
           ELSE {[db |-> Append(db, [name |-> s.name, strength |-> "x",
                                     quantity |-> s.quantity.v, expiryDate |-> 1]),
                  s |-> Finish(s, 201, "none")]}
      [] s.op = "sale" /\ s.pc = "find" ->
           {[db |-> db,
             s |-> IF i = 0 THEN Finish(s, 404, "notfound")
                   ELSE IF db[i].quantity < s.quantity.v
                   THEN Finish(s, 400, "insufficient")
                   ELSE [s EXCEPT !.pc = "save", !.attached = TRUE,
                                  !.med = db[i].quantity - Number(s.quantity).v]]}
      [] s.op = "sale" /\ s.pc = "save" ->
           IF s.attached
           THEN {[db |-> [db EXCEPT ![i].quantity = s.med], s |-> Finish(s, 200, "none")]}
           ELSE {[db |-> db, s |-> Finish(s, 500, "error")],
                 [db |-> db, s |-> Finish(s, 200, "none")]}
      [] s.op = "delete" /\ s.pc = "delete" ->
           IF i = 0
           THEN {[db |-> db, s |-> Finish(s, 404, "notfound")]}
           ELSE {[db |-> Splice(db, i), s |-> Finish(s, 200, "none")]}
      [] OTHER -> {[db |-> db, s |-> s]}

\* one awaited database operation of request s and the code that runs when it
\* returns: the set of the [db, s] it may lead to
MongoStep(db, s) ==
    LET i == findOne(db, s.name) IN
    CASE s.op = "add" /\ s.pc = "find" ->
           {[db |-> db,
             s |-> IF i # 0 THEN Finish([s EXCEPT !.existingMed = "found"], 400, "conflict")
                   ELSE [s EXCEPT !.pc = "save", !.existingMed = "null"]]}
      [] s.op = "add" /\ s.pc = "save" ->
           IF s.quantity.v < 0
           THEN {[db |-> db, s |-> Finish(s, 500, "error")]}
           ELSE IF i # 0
           THEN {[db |-> db, s |-> Finish(s, 400, "conflict")]}
           ELSE {[db |-> Append(db, [name |-> s.name, strength |-> "x",
                                     quantity |-> s.quantity.v, expiryDate |-> 1]),
                  s |-> Finish(s, 201, "none")]}
      [] s.op = "sale" /\ s.pc = "find" ->
           {[db |-> db,
             s |-> IF i = 0 THEN Finish(s, 404, "notfound")
                   ELSE IF db[i].quantity < s.quantity.v
                   THEN Finish(s, 400, "insufficient")
                   ELSE [s EXCEPT !.pc = "save", !.attached = TRUE,
                                  !.med = db[i].quantity - Number(s.quantity).v]]}
      [] s.op = "sale" /\ s.pc = "save" ->
           IF s.attached
           THEN {[db |-> [db EXCEPT ![i].quantity = s.med], s |-> Finish(s, 200, "none")]}
           ELSE {[db |-> db, s |-> Finish(s, 500, "error")],
                 [db |-> db, s |-> Finish(s, 200, "none")]}
      [] s.op = "delete" /\ s.pc = "delete" ->
           IF i = 0
           THEN {[db |-> db, s |-> Finish(s, 404, "notfound")]}
           ELSE {[db |-> Splice(db, i), s |-> Finish(s, 200, "none")]}
      [] OTHER -> {[db |-> db, s |-> s]}

\* a request arrives on a free connection
MongoArrive(c, op, name, quantity) ==
    /\ variant \in MongoVariants
    /\ reqs[c].pc = "idle"
    /\ reqs' = [reqs EXCEPT ![c] = MongoBegin(op, name, quantity)]
    /\ UNCHANGED <<variant, inventory, last, base, clock, listing>>

MongoRequest ==
    \E c \in Connections, name \in MongoNames \cup {""} :
       \/ \E quantity \in MongoAddQuantities : MongoArrive(c, "add", name, quantity)
       \/ \E quantity \in MongoSaleQuantities : MongoArrive(c, "sale", name, quantity)
       \/ (name # "" /\ MongoArrive(c, "delete", name, RawMissing))

\* the awaited operation of connection c completes; a document that is deleted
\* is no longer the one a pending save of another request refers to
MongoAwait(c, pc) ==
    /\ variant \in MongoVariants
    /\ reqs[c].pc = pc
    /\ \E o \in MongoStep(inventory, reqs[c]) :
          /\ WithinBounds(o.db)
          /\ inventory' = o.db
          /\ reqs' = [d \in Connections |->
                        IF d = c THEN o.s
                        ELSE IF /\ reqs[c].op = "delete" /\ o.s.status = 200
                                /\ reqs[d].name = reqs[c].name
                             THEN [reqs[d] EXCEPT !.attached = FALSE]
                             ELSE reqs[d]]
    /\ UNCHANGED <<variant, last, base, clock, listing>>

MongoFindOne == \E c \in Connections : MongoAwait(c, "find")
MongoSave == \E c \in Connections : MongoAwait(c, "save")
MongoDeleteOne == \E c \in Connections : MongoAwait(c, "delete")

Quiescent == \A c \in Connections : reqs[c].pc \in {"idle", "done"}

\* the responses are out and the connections are free again
MongoRetire ==
    /\ variant \in MongoVariants
    /\ Quiescent
    /\ \E c \in Connections : reqs[c].pc = "done"
    /\ reqs' = [c \in Connections |-> Idle]
    /\ base' = inventory
    /\ UNCHANGED <<variant, inventory, last, clock, listing>>

\* ================================================ MongoDB status listing
\* Time is counted in ticks, DayMs of them to a day (86400000 ms in the code).
\* In the listing specification a document's expiryDate is a time in ticks and
\* clock is the time new Date() returns; the server's time zone is UTC.
ExpiryDates == 0..((MaxDay + 1) * DayMs - 1)
Clocks == DayMs..(3 * DayMs - 1)
Filters == {"", "all", "expired", "soon", "near", "ok"}

\* new Date(t).setHours(0, 0, 0, 0): the midnight that starts t's day
setHours0(t) == t - (t % DayMs)

\* getStatus with the first two range tests made strict
getStatusStrict(expiryDate, now) ==
    LET days == (setHours0(expiryDate) - setHours0(now)) \div DayMs IN
    IF days < 0 THEN [key |-> "expired", label |-> "Expired"]
    ELSE IF days < SoonDays THEN [key |-> "soon", label |-> "<=30d"]
    ELSE IF days < NearDays THEN [key |-> "near", label |-> "<=90d"]
    ELSE [key |-> "ok", label |-> "OK"]

\* getStatus(expiryDate), with now the value of new Date()
getStatus(expiryDate, now) ==
    LET days == (setHours0(expiryDate) - setHours0(now)) \div DayMs IN
    IF days < 0 THEN [key |-> "expired", label |-> "Expired"]
    ELSE IF days <= SoonDays THEN [key |-> "soon", label |-> "<=30d"]
    ELSE IF days <= NearDays THEN [key |-> "near", label |-> "<=90d"]
    ELSE [key |-> "ok", label |-> "OK"]

\* query.expiryDate of the status filter: does a document expiring at t match?
\* part_000 measures from now, part_001 from now_midnight; no filter, "all" and
\* any other word leave the query without a condition on expiryDate
MatchesFilter(filter, now, t) ==
    LET from == IF variant = "part_001" THEN setHours0(now) ELSE now IN
    CASE filter = "expired" -> t < from
      [] filter = "soon" -> t >= from /\ t <= from + SoonDays * DayMs
      [] filter = "near" -> t >= from /\ t <= from + NearDays * DayMs
      [] filter = "ok" -> t > from + NearDays * DayMs
      [] OTHER -> TRUE

\* toISOString().split('T')[0]: the calendar day of t
toISODate(t) == t \div DayMs

\* Medicine.find(query) and the map over its result (no search term)
MongoList(db, filter, now) ==
    LET found == {i \in Indices(db) : MatchesFilter(filter, now, db[i].expiryDate)}
        medicines == Pick(db, FilterIdx(Flags(db, found), 1))
    IN [k \in 1..Len(medicines) |->
          [name |-> medicines[k].name,
           strength |-> medicines[k].strength,
           quantity |-> medicines[k].quantity,
           expiry_date |-> toISODate(medicines[k].expiryDate),
           status |-> getStatus(medicines[k].expiryDate, now)]]

NoListing == [filter |-> "none", items |-> <<>>]

\* app.get('/api/inventory')
MongoGetInventory ==
    /\ variant \in MongoVariants
    /\ \E filter \in Filters :
          listing' = [filter |-> filter, items |-> MongoList(inventory, filter, clock)]
    /\ UNCHANGED <<variant, inventory, last, reqs, base, clock>>

Init ==
    /\ variant \in Variants
    /\ inventory = <<>>
    /\ last = NoRequest
    /\ reqs = [c \in Connections |-> Idle]
    /\ base = <<>>
    /\ clock = 0
    /\ listing = NoListing

Next ==
    \/ IndexPostInventory
    \/ IndexPostSales
    \/ IndexDeleteInventory
    \/ ServerPostInventory
    \/ ServerPostSales
    \/ ServerDeleteInventory

Spec == Init /\ [][Next]_vars

InitMongo ==
    /\ variant \in MongoVariants
    /\ inventory = <<>>
    /\ last = NoRequest
    /\ reqs = [c \in Connections |-> Idle]
    /\ base = <<>>
    /\ clock = 0
    /\ listing = NoListing

NextMongo ==
    \/ MongoRequest
    \/ MongoFindOne
    \/ MongoSave
    \/ MongoDeleteOne
    \/ MongoRetire

SpecMongo == InitMongo /\ [][NextMongo]_vars

\* the listing: one stored medicine with any expiry time, read at any time of
\* the first two days after day 0
InitStatus ==
    /\ variant \in MongoVariants
    /\ \E t \in ExpiryDates :
          inventory = <<[name |-> "a", strength |-> "x", quantity |-> 1, expiryDate |-> t]>>
    /\ last = NoRequest
    /\ reqs = [c \in Connections |-> Idle]
    /\ base = <<>>
    /\ clock \in Clocks
    /\ listing = NoListing

NextStatus == MongoGetInventory

SpecStatus == InitStatus /\ [][NextStatus]_vars

\* rows data.json may hold when a file-backed server starts
SeedRows ==
    {[name |-> b.name, strength |-> b.strength, quantity |-> n, expiryDate |-> b.expiryDate] :
        b \in AddBodies, n \in 1..MaxQty}

\* readData(): data.json as found, any collection of distinct batches
SeededInventories ==
    {<<>>} \cup {<<x>> : x \in SeedRows}
           \cup {p \in {<<x, y>> : x \in SeedRows, y \in SeedRows} :
                   ~(/\ p[1].name = p[2].name /\ p[1].strength = p[2].strength
                     /\ p[1].expiryDate = p[2].expiryDate)}

InitSeeded ==
    /\ variant \in Variants
    /\ inventory \in SeededInventories
    /\ last = NoRequest
    /\ reqs = [c \in Connections |-> Idle]
    /\ base = <<>>
    /\ clock = 0
    /\ listing = NoListing

SpecSeeded == InitSeeded /\ [][Next]_vars

\* =============================================================== claims
\* a batch belongs to medicine m when the names agree ignoring case
Matches(item, m) == toLowerCase(item.name) = toLowerCase(m)

\* total quantity over the batches of medicine m
TotalOf(inv, m) == SumQuantity(inv, {i \in Indices(inv) : Matches(inv[i], m)})

\* total quantity over the batches of m that hold stock
Available(inv, m) ==
    SumQuantity(inv, {i \in Indices(inv) : Matches(inv[i], m) /\ inv[i].quantity > 0})

SameBatch(x, y) ==
    x.name = y.name /\ x.strength = y.strength /\ x.expiryDate = y.expiryDate

\* the quantity batch b has in inv (0 when the batch is not there)
QtyOf(inv, b) ==
    IF \E i \in Indices(inv) : SameBatch(inv[i], b)
    THEN inv[CHOOSE i \in Indices(inv) : SameBatch(inv[i], b)].quantity
    ELSE 0

PositiveInteger(quantity) == quantity.kind = "num" /\ quantity.v > 0

\* the units a sale request accounts for: its quantity when it reports success
\* with a numeric quantity, nothing otherwise
Sold(q, status) == IF status = 200 /\ q.kind = "num" THEN q.v ELSE 0

\* C1 Conservation: every sale request takes exactly the units it sold off the
\* medicine's total (a failed sale takes nothing), so over any sequence of sales
\* the total decreases by the sum of the quantities of the successful ones
C1_Conservation ==
    [][\A m \in Names, q \in SaleQuantities :
         PostSales(m, q) =>
            TotalOf(inventory', m) = TotalOf(inventory, m) - Sold(q, last'.status)]_vars

\* C2 Non-negative stock: every persisted batch has quantity >= 0
C2_NonNegativeStock ==
    \A i \in Indices(inventory) : inventory[i].quantity >= 0

\* C3 FIFO by expiry: a successful sale reduces a batch of the medicine only if
\* every batch of the medicine with a strictly earlier expiry date is depleted
C3_FifoByExpiry ==
    [][\A m \in Names, q \in SaleQuantities :
         (PostSales(m, q) /\ last'.status = 200) =>
            \A i, j \in Indices(inventory) :
               ( /\ Matches(inventory[i], m) /\ Matches(inventory[j], m)
                 /\ inventory[j].expiryDate < inventory[i].expiryDate
                 /\ QtyOf(inventory', inventory[i]) < inventory[i].quantity )
               => QtyOf(inventory', inventory[j]) <= 0]_vars

\* C4 Sale feasibility: with a name and a positive integer quantity the sale
\* succeeds exactly when the stocked batches of the medicine (names compared
\* ignoring case) sum to at least the quantity, and otherwise fails for lack of stock
C4_SaleFeasibility ==
    [][\A m \in Names, q \in SaleQuantities :
         (PositiveInteger(q) /\ PostSales(m, q)) =>
            /\ (last'.status = 200) <=> (Available(inventory, m) >= q.v)
            /\ (last'.status # 200) => (last'.err = "insufficient")]_vars

\* C5 All-or-nothing: a request answered with an error leaves the persisted
\* collection as it was
C5_AllOrNothing ==
    [][(last'.err # "none") => (inventory' = inventory)]_vars

\* a sale has just failed for lack of stock against a single batch that holds
\* less than the largest sale, and the batch is still there unchanged
C5_Witness ==
    /\ last.op = "sale" /\ last.err = "insufficient"
    /\ inventory = <<[name |-> "a", strength |-> "x", quantity |-> MaxQty, expiryDate |-> 1]>>

\* C6 No zero-stock rows: no persisted batch has quantity 0
C6_NoZeroStockRows ==
    \A i \in Indices(inventory) : inventory[i].quantity # 0

\* request s run alone from db to its response
RECURSIVE Serial(_, _)
Serial(db, s) ==
    IF s.pc = "done" THEN [db |-> db, s |-> s]
    ELSE LET o == CHOOSE x \in MongoStep(db, s) : TRUE IN Serial(o.db, o.s)

Succeeded(s) == s.status \in {200, 201}

\* running first, then second, one after the other from base gives the
\* collection that the interleaved run gave, and the same requests succeed
SerialOutcome(first, second) ==
    LET s1 == MongoBegin(reqs[first].op, reqs[first].name, reqs[first].quantity)
        o1 == Serial(base, s1)
        s2 == MongoBegin(reqs[second].op, reqs[second].name, reqs[second].quantity)
        o2 == Serial(o1.db, s2)
    IN /\ o2.db = inventory
       /\ Succeeded(o1.s) = Succeeded(reqs[first])
       /\ Succeeded(o2.s) = Succeeded(reqs[second])

\* C7 Atomic read-modify-write: once two concurrent requests have both been
\* answered, the collection and the success or failure of each are those of
\* running the two requests one after the other in some order
C7_Serializable ==
    (variant \in MongoVariants /\ \A c \in Connections : reqs[c].pc = "done")
       => (SerialOutcome(1, 2) \/ SerialOutcome(2, 1))

\* C8 Merge on add: adding stock for a (name, strength, expiryDate) that is in
\* the collection adds the quantity to that batch, keeps the number of rows and
\* every other batch, and answers "updated" (not "created")
C8_MergeOnAdd ==
    [][\A b \in AddBodies, q \in AddQuantities :
         ( /\ PositiveInteger(q)
           /\ \E i \in Indices(inventory) : SameBatch(inventory[i], b)
           /\ PostInventory(b.name, b.strength, q, b.expiryDate) )
         => /\ last'.status = 200
            /\ Len(inventory') = Len(inventory)
            /\ \A i \in Indices(inventory) :
                  inventory'[i] = IF SameBatch(inventory[i], b)
                                  THEN [inventory[i] EXCEPT !.quantity = @ + q.v]
                                  ELSE inventory[i]]_vars

\* C9 Delete completeness: delete removes every batch whose name equals the
\* given one ignoring case and nothing else; with no such batch it answers
\* not-found and changes nothing
C9_DeleteCompleteness ==
    [][\A n \in Names :
         DeleteInventory(n) =>
            LET other == {i \in Indices(inventory) : ~Matches(inventory[i], n)} IN
            IF \E i \in Indices(inventory) : Matches(inventory[i], n)
            THEN /\ last'.status = 200
                 /\ inventory' = Pick(inventory, FilterIdx(Flags(inventory, other), 1))
            ELSE /\ last'.err = "notfound"
                 /\ inventory' = inventory]_vars

\* C10 Sale input validation: a sale with an empty name or a quantity that is
\* not a positive integer is answered with a validation error and changes nothing
C10_SaleValidation ==
    [][\A m \in Names \cup {""}, q \in SaleQuantities :
         (PostSales(m, q) /\ (m = "" \/ ~PositiveInteger(q))) =>
            /\ last'.err = "validation"
            /\ inventory' = inventory]_vars

StatusKeys == {"expired", "soon", "near", "ok"}

\* the stored medicines whose expiry date has no time of day
DayGranular(db) == \A i \in Indices(db) : db[i].expiryDate % DayMs = 0

\* C11 Status filter agrees with status: for expiry dates at day granularity a
\* listing filtered by a status key returns exactly the stored medicines whose
\* getStatus key is that key, and every returned item carries that key
C11_FilterAgreesWithStatus ==
    (listing.filter \in StatusKeys /\ DayGranular(inventory)) =>
       /\ \A k \in 1..Len(listing.items) : listing.items[k].status.key = listing.filter
       /\ Len(listing.items) =
             Cardinality({i \in Indices(inventory) :
                            getStatus(inventory[i].expiryDate, clock).key = listing.filter})

\* the status key the specification gives to d days remaining
KeyOfDays(d) ==
    IF d < 0 THEN "expired"
    ELSE IF d <= 30 THEN "soon"
    ELSE IF 31 <= d /\ d <= 90 THEN "near"
    ELSE "ok"

\* C12 Status boundaries: every listed item carries the key of its days
\* remaining d, the calendar day of its expiry minus today's: expired for d < 0,
\* soon for 0..30, near for 31..90, ok above 90
C12_StatusBoundaries ==
    \A k \in 1..Len(listing.items) :
       listing.items[k].status.key =
          KeyOfDays(listing.items[k].expiry_date - toISODate(clock))

\* an unfiltered listing taken after midnight shows a medicine expiring in
\* exactly 30 days as "soon"
C12_Witness ==
    /\ listing.filter = "all"
    /\ clock % DayMs # 0
    /\ \E k \in 1..Len(listing.items) :
          /\ listing.items[k].expiry_date - toISODate(clock) = 30
          /\ listing.items[k].status.key = "soon"

\* C13 Insufficient-stock detail: the error of a sale refused for lack of stock
\* carries the total quantity of the batches of the medicine (names compared
\* ignoring case) as they were before the request
C13_InsufficientDetail ==
    [][\A m \in Names, q \in SaleQuantities :
         (PostSales(m, q) /\ last'.err = "insufficient") =>
            last'.detail = TotalOf(inventory, m)]_vars

\* no stored medicine of this name holds stock
NoStock(db, name) == \A i \in Indices(db) : db[i].name = name => db[i].quantity <= 0

\* C14 Unknown medicine: a sale whose medicine has no batch of positive
\* quantity is refused as insufficient stock, not with an error of another kind,
\* and changes nothing
C14_UnknownMedicine ==
    [][\A c \in Connections :
         ( /\ reqs[c].op = "sale" /\ reqs[c].pc = "find" /\ reqs'[c].pc = "done"
           /\ NoStock(inventory, reqs[c].name) )
         => /\ reqs'[c].err = "insufficient"
            /\ inventory' = inventory]_vars

Earlier(d, e) == IF d <= e THEN d ELSE e

\* C15 Earliest expiry wins on merge (index.js): when an add finds a batch of
\* the same name and strength, that batch's expiry date afterwards is the earlier
\* of its previous one and the supplied one, so it never moves later (the
\* quantity supplied is the one the batch has grown by)
C15_EarliestExpiryOnMerge ==
    [][(variant = "index" /\ last'.op = "add" /\ Len(inventory') = Len(inventory)) =>
       \A b \in AddBodies :
         LET k == findItem(inventory, b.name, b.strength) IN
         ( /\ k # 0
           /\ PostInventory(b.name, b.strength,
                            RawNum(inventory'[k].quantity - inventory[k].quantity),
                            b.expiryDate) )
         => /\ inventory'[k].expiryDate = Earlier(inventory[k].expiryDate, b.expiryDate)
            /\ inventory'[k].expiryDate <= inventory[k].expiryDate]_vars

\* index.js has just merged an add into the only batch, which now holds the
\* largest quantity and the earliest expiry date
C15_Witness ==
    /\ variant = "index"
    /\ last.op = "add" /\ last.status = 200
    /\ inventory = <<[name |-> "a", strength |-> "x", quantity |-> MaxQty, expiryDate |-> 1]>>

\* C16 Batch identity uniqueness: starting from a collection of distinct
\* batches, no two rows of the persisted collection ever share the full
\* (name, strength, expiryDate) tuple
C16_TupleUniqueness ==
    \A i, j \in Indices(inventory) : SameBatch(inventory[i], inventory[j]) => i = j

\* the awaited operation of connection c has just completed
Stepped(c) == reqs[c].pc \in {"find", "save", "delete"} /\ reqs'[c] # reqs[c]

\* C17 Name uniqueness (MongoDB servers): no two stored medicines ever have
\* the same name, and a valid add whose name is stored when its check or its
\* insert runs is refused as a conflict and leaves the collection as it was,
\* also when two adds of one new name interleave between check and insert
C17_NameUniqueness ==
    /\ [](\A i, j \in Indices(inventory) :
             inventory[i].name = inventory[j].name => i = j)
    /\ [][\A c \in Connections :
            ( /\ reqs[c].op = "add" /\ Stepped(c)
              /\ reqs[c].quantity.v >= 0
              /\ findOne(inventory, reqs[c].name) # 0 )
            => /\ reqs'[c].err = "conflict"
               /\ inventory' = inventory]_vars

\* part_001: two adds of one new name both passed the existence check; the
\* first insert succeeded and the second was refused by the unique index
C17_Witness ==
    /\ variant = "part_001"
    /\ \E c, d \in Connections :
          /\ c # d
          /\ reqs[c].op = "add" /\ reqs[c].status = 201
          /\ reqs[d].op = "add" /\ reqs[d].name = reqs[c].name
          /\ reqs[d].existingMed = "null" /\ reqs[d].err = "conflict"
          /\ Cardinality({i \in Indices(inventory) : inventory[i].name = reqs[c].name}) = 1

\* the batches of inv whose name differs from m ignoring case, in order
OthersOf(inv, m) ==
    Pick(inv, FilterIdx(Flags(inv, {i \in Indices(inv) : ~Matches(inv[i], m)}), 1))

\* C18 Sale frame condition: a sale of medicine m, refused or not, leaves every
\* batch of another name in the collection and unchanged
C18_SaleFrame ==
    [][\A m \in Names, q \in SaleQuantities :
         PostSales(m, q) => OthersOf(inventory', m) = OthersOf(inventory, m)]_vars
====
